---- MODULE Spec2Model ----
(***************************************************************************)
(* vetCheck (app.py): the /diagnose and /veterinary-details handlers, the  *)
(* retried provider query, the reply parser, the diagnosis summary and the *)
(* lru_cache in front of query_veterinary_details.                         *)
(*                                                                         *)
(* The server handles each request in a thread of its own.  A handler runs *)
(* thread-locally up to its access to the cache and to the provider, so it *)
(* is modelled by two actions: the one that reads the request and runs to  *)
(* the provider call (or to the response), and the one in which the        *)
(* provider answers an attempt.                                            *)
(***************************************************************************)
EXTENDS Integers, Sequences, FiniteSets, Bags, TLC

VARIABLES
    apiKey,     \* OPENROUTER_API_KEY is set (app.py:14); fixed for the process
    cache,      \* lru_cache of query_veterinary_details: <<[key, val]>>, least recently used first
    inflight,   \* the requests waiting for the provider: a bag of [endpoint, key, attempts]
    sent,       \* the response the last step sent, with the facts of its request; NoRequest if none
    retried,    \* ghost: the resident keys stored by a request that needed its second attempt
    useOrder,   \* ghost: the maxsize keys used last (hit or inserted), least recent first
    results,    \* input of get_highest_ranked_diagnosis (the summary specification)
    summary     \* its output

vars == <<apiKey, cache, inflight, sent, retried, useOrder, results, summary>>

-----------------------------------------------------------------------------
(* Bounds of the model *)

MaxInFlight == 2         \* requests waiting for the provider at the same time
MaxConditions == 4       \* conditions in a list given to the summary
MaxLikelihood == 2       \* likelihoods are 0..MaxLikelihood in the summary specification

(* Program constants *)

maxsize == 128           \* @lru_cache(maxsize=128)
stop_after_attempt == 2  \* @retry(stop=stop_after_attempt(2))

-----------------------------------------------------------------------------
(* Python values *)

PyNone == [py |-> "None"]

\* A parsed JSON object is a function from field names to values; {} is the
\* function with the empty domain.
EmptyDict == [f \in {} |-> TRUE]

\* Python truthiness of a parsed reply: None and {} are falsy.
Truthy(v) == v # PyNone /\ v # EmptyDict

Ret(v) == [ok |-> TRUE, val |-> v]
Raise(e) == [ok |-> FALSE, exc |-> e]

\* The exceptions that reach the handlers.
UnavailableMsg == "Model temporarily unavailable. Please try again later."
PlainException(msg) == [type |-> "Exception", msg |-> msg]
KeyError(k) == [type |-> "KeyError", msg |-> "'" \o k \o "'"]
JSONDecodeError == [type |-> "JSONDecodeError", msg |-> "Expecting value: line 1 column 1 (char 0)"]
TypeError == [type |-> "TypeError", msg |-> "the JSON object must be str, bytes or bytearray, not NoneType"]
AttributeError == [type |-> "AttributeError", msg |-> "object has no attribute"]
BadRequest == [type |-> "BadRequest", msg |-> "400 Bad Request: Failed to decode JSON object"]

\* tenacity raises RetryError when the attempts are used up (no reraise=True);
\* its text names the last attempt's future, not the exception's message.
RetryErrorOf(e) == [type |-> "RetryError", last |-> e]

StrOf(e) ==
    IF e.type = "RetryError"
    THEN "RetryError[<Future at 0x7f state=finished raised " \o e.last.type \o ">]"
    ELSE e.msg

\* Python's `sub in s` on strings.
Contains(s, sub) ==
    \E i \in 1..(Len(s) - Len(sub) + 1) : SubSeq(s, i, i + Len(sub) - 1) = sub

-----------------------------------------------------------------------------
(* The provider's replies *)

\* The text of a reply is a sequence of segments: prose that holds no brace
\* (words, a code fence), or the text of one JSON object, whose value is v.
TextSeg == [t |-> "text"]
JsonSeg(v) == [t |-> "json", v |-> v]

\* Prose alone; the object alone; the object inside a code fence; two objects
\* with prose between them.
Contents(values) ==
    {<<TextSeg>>}
        \cup {<<JsonSeg(v)>> : v \in values}
        \cup {<<TextSeg, JsonSeg(v), TextSeg>> : v \in values}
        \cup {<<JsonSeg(v), TextSeg, JsonSeg(v)>> : v \in values}

\* response.choices[0].message.content is a string or None.
NoContentResponse == [has_content |-> FALSE]
TextResponse(segs) == [has_content |-> TRUE, content |-> segs]

\* What client.chat.completions.create raises.
ProviderErrors ==
    { [type |-> "APIStatusError", status_code |-> 503, msg |-> "Service Unavailable"],
      [type |-> "APIStatusError", status_code |-> 429, msg |-> "Rate limit exceeded"],
      [type |-> "APIConnectionError", msg |-> "Connection error."] }

ProviderOutcomes(values) ==
    {Raise(e) : e \in ProviderErrors}
        \cup {Ret(NoContentResponse)}
        \cup {Ret(TextResponse(c)) : c \in Contents(values)}

\* How an attempt's provider call went, for the record of the request.
OutcomeKind(o) ==
    IF ~o.ok
    THEN IF "status_code" \in DOMAIN o.exc /\ o.exc.status_code = 503 THEN "503" ELSE "error"
    ELSE IF o.val.has_content THEN "ok" ELSE "nocontent"

\* JSON objects a reply to the diagnose prompt may hold.
Otitis == [name |-> "Otitis", likelihood |-> 70, explanation |-> "ear infection"]
Mites == [name |-> "Ear mites", likelihood |-> 70]
Allergy == [name |-> "Allergy", likelihood |-> 20, explanation |-> "seasonal"]
Polyp == [name |-> "Polyp", likelihood |-> 90, explanation |-> "growth"]
Unnamed == [likelihood |-> 50, explanation |-> "unclear"]

Advice(conditions) ==
    [conditions |-> conditions, urgent |-> FALSE, consult |-> "monitor", homecare |-> "clean ears"]

DiagnoseValues ==
    { EmptyDict,
      Advice(<<Otitis>>),
      Advice(<<Allergy, Otitis, Mites, Polyp>>),
      Advice(<<>>),
      Advice(<<Unnamed>>),
      [conditions |-> <<Otitis>>, urgent |-> FALSE, consult |-> "monitor"],
      [urgent |-> TRUE, consult |-> "see a veterinarian", homecare |-> "none"] }

\* JSON objects a reply to the details prompt may hold: they tell about the
\* diagnosis the prompt names.
DetailsValues(key) == { [Overview |-> key[1], Symptoms |-> "itching"] }

-----------------------------------------------------------------------------
(* process_response and the identical parse inside query_veterinary_details *)

json_loads(segs) ==
    IF Len(segs) = 1 /\ segs[1].t = "json" THEN Ret(segs[1].v) ELSE Raise(JSONDecodeError)

\* re.search(r'\{[\s\S]*\}', content): from the first "{" to the last "}".
re_search(segs) ==
    LET braces == {i \in 1..Len(segs) : segs[i].t = "json"}
        first == CHOOSE i \in braces : \A j \in braces : i <= j
        final == CHOOSE i \in braces : \A j \in braces : j <= i
    IN  IF braces = {} THEN [found |-> FALSE] ELSE [found |-> TRUE, group |-> SubSeq(segs, first, final)]

parse_content(response) ==
    IF ~response.has_content THEN Raise(TypeError)   \* json.loads(None)
    ELSE LET strict == json_loads(response.content)
             json_match == re_search(response.content)
         IN  IF strict.ok THEN strict
             ELSE IF json_match.found /\ json_loads(json_match.group).ok
                  THEN json_loads(json_match.group)
                  ELSE Ret(PyNone)

process_response(response) == parse_content(response)

get_diagnoses(response) ==
    IF Truthy(response) /\ "conditions" \in DOMAIN response
    THEN LET cs == response.conditions
         IN  IF \E i \in 1..Len(cs) : "name" \notin DOMAIN cs[i] THEN Raise(KeyError("name"))
             ELSE IF \E i \in 1..Len(cs) : "likelihood" \notin DOMAIN cs[i]
                  THEN Raise(KeyError("likelihood"))
             ELSE Ret([i \in 1..Len(cs) |->
                        [name |-> cs[i].name, likelihood |-> cs[i].likelihood,
                         explanation |-> IF "explanation" \in DOMAIN cs[i]
                                         THEN cs[i].explanation ELSE ""]])
    ELSE Ret(<<>>)

-----------------------------------------------------------------------------
(* get_highest_ranked_diagnosis *)

Reverse(s) == [i \in 1..Len(s) |-> s[Len(s) + 1 - i]]

\* max(results, key=likelihood): the first element no other exceeds.
py_max(s) ==
    LET i == CHOOSE i \in 1..Len(s) :
                 /\ \A j \in 1..Len(s) : s[j].likelihood <= s[i].likelihood
                 /\ \A j \in 1..(i - 1) : s[j].likelihood < s[i].likelihood
    IN  s[i]

\* One step of a stable ascending sort: x goes after the elements not above it.
InsertAscending(s, x) ==
    LET k == Cardinality({i \in 1..Len(s) : s[i].likelihood <= x.likelihood})
    IN  SubSeq(s, 1, k) \o <<x>> \o SubSeq(s, k + 1, Len(s))

RECURSIVE SortAscending(_)
SortAscending(s) ==
    IF s = <<>> THEN <<>>
    ELSE InsertAscending(SortAscending(SubSeq(s, 1, Len(s) - 1)), s[Len(s)])

\* A sort that reverses only after sorting: equal likelihoods come out in the
\* opposite order.
sorted_then_reversed(s) == Reverse(SortAscending(s))

\* sorted(results, key=likelihood, reverse=True): list.sort reverses the list,
\* sorts it ascending and stable, and reverses the result.
sorted_reverse(s) == Reverse(SortAscending(Reverse(s)))

FormatDiagnosis(d) == d.name \o " (" \o ToString(d.likelihood) \o "%)"

RECURSIVE Join(_, _)
Join(sep, strs) ==
    IF strs = <<>> THEN ""
    ELSE IF Len(strs) = 1 THEN strs[1]
    ELSE strs[1] \o sep \o Join(sep, Tail(strs))

get_highest_ranked_diagnosis(rs) ==
    IF rs = <<>> THEN "No diagnosis available"
    ELSE IF Len(rs) >= 3
         THEN LET top_three == SubSeq(sorted_reverse(rs), 1, 3)
              IN  "Top 3 possible diagnoses: "
                     \o Join(", ", [i \in 1..3 |-> FormatDiagnosis(top_three[i])])
         ELSE FormatDiagnosis(py_max(rs))

-----------------------------------------------------------------------------
(* Requests and responses *)

\* request.json: a body that is no JSON (or has the wrong content type) makes
\* it raise; a JSON body is an object or something else (an array, null).
InvalidBody == [kind |-> "invalid"]
ArrayBody == [kind |-> "array"]
ObjectBody(fields) == [kind |-> "object", fields |-> fields]

DiagnoseBodies ==
    { InvalidBody, ArrayBody,
      ObjectBody([species |-> "dog", breed |-> "beagle", symptoms |-> "scratching ears"]) }

\* Diagnoses of the requests served before the model starts watching: see Init.
Earlier(i) == "Condition" \o ToString(i)

DetailsBodies ==
    { InvalidBody, ArrayBody,
      ObjectBody([species |-> "Dog"]),
      ObjectBody([diagnosis |-> ""]),
      ObjectBody([diagnosis |-> "Otitis"]),
      ObjectBody([diagnosis |-> "Otitis", species |-> "Unknown", breed |-> "Mixed"]),
      ObjectBody([diagnosis |-> Earlier(1)]) }

NoKey == <<"", "", "">>

\* A JSON response: its status and the fields of its body ("" and <<>> and
\* PyNone stand for a field the body does not have; `fields` names those it has).
Response(status, fields, error, skipped, queried, diagnosis, details) ==
    [status |-> status, fields |-> fields, error |-> error, skipped_models |-> skipped,
     queried_models |-> queried, diagnosis |-> diagnosis, veterinary_details |-> details]

ErrorResponse(status, error) ==
    Response(status, {"error"}, error, <<>>, <<>>, "", PyNone)

SkippedResponse(status, error, skipped) ==
    Response(status, {"error", "skipped_models"}, error, skipped, <<>>, "", PyNone)

DemandMsg == "The AI model is currently unavailable due to high demand. Please try again later."
UnexpectedMsg == "An unexpected error occurred. Please try again."

request_json(body) == IF body.kind = "invalid" THEN Raise(BadRequest) ELSE Ret(body)

\* The prompt is kept as what it is built from.
create_prompt(user_data) ==
    IF user_data.kind # "object" THEN Raise(AttributeError)   \* no .items()
    ELSE Ret([task |-> "diagnose", data |-> user_data.fields])

-----------------------------------------------------------------------------
(* The retried provider queries *)

\* One attempt of query_openrouter, given what the provider call did.
query_openrouter(outcome) ==
    IF outcome.ok THEN outcome
    ELSE IF "status_code" \in DOMAIN outcome.exc /\ outcome.exc.status_code = 503
         THEN Raise(PlainException(UnavailableMsg))
         ELSE outcome

\* One attempt of query_veterinary_details: the reply is parsed inside it.
query_veterinary_details(outcome) ==
    IF outcome.ok THEN parse_content(outcome.val)
    ELSE IF "status_code" \in DOMAIN outcome.exc /\ outcome.exc.status_code = 503
         THEN Raise(PlainException(UnavailableMsg))
         ELSE outcome

\* A retry that stops one attempt late.
retry_once_more(n, result) ==
    IF result.ok THEN [again |-> FALSE, result |-> result]
    ELSE IF n > stop_after_attempt
         THEN [again |-> FALSE, result |-> Raise(RetryErrorOf(result.exc))]
         ELSE [again |-> TRUE, result |-> result]

\* @retry(stop=stop_after_attempt(2)): what follows attempt number n.
retry(n, result) ==
    IF result.ok THEN [again |-> FALSE, result |-> result]
    ELSE IF n >= stop_after_attempt
         THEN [again |-> FALSE, result |-> Raise(RetryErrorOf(result.exc))]
         ELSE [again |-> TRUE, result |-> result]

-----------------------------------------------------------------------------
(* lru_cache(maxsize=128) *)

CacheKeys(c) == {c[i].key : i \in 1..Len(c)}

\* A lookup that never finds the key.
cache_find_never(c, key) == 0

\* The position of key in the cache, 0 when it is not there.
cache_find(c, key) ==
    IF key \in CacheKeys(c) THEN CHOOSE i \in 1..Len(c) : c[i].key = key ELSE 0

\* A hit that leaves the entry where it is: first in, first out.
cache_hit_in_place(c, i) == c

\* A hit moves the entry to the most recently used end.
cache_hit(c, i) == SubSeq(c, 1, i - 1) \o SubSeq(c, i + 1, Len(c)) \o <<c[i]>>

\* A store that does not keep None.
cache_store_unless_none(c, key, val) ==
    IF key \in CacheKeys(c) \/ val = PyNone THEN c
    ELSE IF Len(c) < maxsize THEN Append(c, [key |-> key, val |-> val])
    ELSE Append(Tail(c), [key |-> key, val |-> val])

\* After the call: a key added meanwhile is left alone; a full cache drops its
\* least recently used entry.
cache_store(c, key, val) ==
    IF key \in CacheKeys(c) THEN c
    ELSE IF Len(c) < maxsize THEN Append(c, [key |-> key, val |-> val])
    ELSE Append(Tail(c), [key |-> key, val |-> val])

-----------------------------------------------------------------------------
(* POST /diagnose *)

\* A handler that catches the retry's error alone: anything else leaves it, and
\* the framework answers with its own page, which is no JSON.
diagnose_except_retry_only(e) ==
    IF e.type = "RetryError" THEN ErrorResponse(500, UnexpectedMsg)
    ELSE Response(500, {}, "", <<>>, <<>>, "", PyNone)

\* except Exception as e, at the end of both handlers.
diagnose_except(e) ==
    IF Contains(StrOf(e), "Model temporarily unavailable")
    THEN ErrorResponse(503, DemandMsg)
    ELSE ErrorResponse(500, UnexpectedMsg)

\* From `if not queried_models` to the return, given the lists built before.
diagnose_return(rs, queried, skipped, openrouter_response) ==
    IF queried = <<>>
    THEN Ret(SkippedResponse(503,
             "No AI models were available to process your request. Please check API configurations.",
             skipped))
    ELSE IF rs = <<>>
    THEN Ret(ErrorResponse(500, "Failed to parse AI response. Please try again."))
    ELSE IF "urgent" \notin DOMAIN openrouter_response THEN Raise(KeyError("urgent"))
    ELSE IF "consult" \notin DOMAIN openrouter_response THEN Raise(KeyError("consult"))
    ELSE IF "homecare" \notin DOMAIN openrouter_response THEN Raise(KeyError("homecare"))
    ELSE Ret(Response(200,
                 {"diagnosis", "conditions", "urgent", "consult", "homecare", "disclaimer",
                  "queried_models", "skipped_models"},
                 "", skipped, queried, get_highest_ranked_diagnosis(rs), PyNone))

\* A handler that queries the provider without looking at the credential.
diagnose_begin_unchecked(body) ==
    LET user_data == request_json(body)
        prompt == create_prompt(user_data.val)
    IN  IF ~user_data.ok THEN [call |-> FALSE, response |-> diagnose_except(user_data.exc)]
        ELSE IF ~prompt.ok THEN [call |-> FALSE, response |-> diagnose_except(prompt.exc)]
        ELSE [call |-> TRUE, prompt |-> prompt.val]

\* The handler up to the provider call: the response, or the prompt to send.
diagnose_begin(body) ==
    LET user_data == request_json(body)
        prompt == create_prompt(user_data.val)
    IN  IF ~user_data.ok THEN [call |-> FALSE, response |-> diagnose_except(user_data.exc)]
        ELSE IF ~prompt.ok THEN [call |-> FALSE, response |-> diagnose_except(prompt.exc)]
        ELSE IF apiKey THEN [call |-> TRUE, prompt |-> prompt.val]
        ELSE [call |-> FALSE,
              response |-> diagnose_return(<<>>, <<>>, <<"OpenRouter (no API key)">>, PyNone).val]

\* The handler from the return (or the exception) of the retried query_openrouter.
diagnose_end(queried) ==
    LET openrouter_response == process_response(queried.val)
        openrouter_diagnoses == get_diagnoses(openrouter_response.val)
        returned ==
            IF Truthy(openrouter_response.val)
            THEN diagnose_return(openrouter_diagnoses.val, <<"OpenRouter">>, <<>>,
                                 openrouter_response.val)
            ELSE diagnose_return(<<>>, <<>>, <<"OpenRouter (API error)">>,
                                 openrouter_response.val)
    IN  IF ~queried.ok THEN diagnose_except(queried.exc)
        ELSE IF ~openrouter_response.ok THEN diagnose_except(openrouter_response.exc)
        ELSE IF Truthy(openrouter_response.val) /\ ~openrouter_diagnoses.ok
             THEN diagnose_except(openrouter_diagnoses.exc)
        ELSE IF ~returned.ok THEN diagnose_except(returned.exc)
        ELSE returned.val

-----------------------------------------------------------------------------
(* POST /veterinary-details *)

veterinary_details_except(e) ==
    IF Contains(StrOf(e), "Model temporarily unavailable")
    THEN ErrorResponse(503, DemandMsg)
    ELSE ErrorResponse(500, UnexpectedMsg)

\* data.get(name, default)
Get(fields, name, default) == IF name \in DOMAIN fields THEN fields[name] ELSE default

\* A check for the missing field alone.
NoDiagnosis_missing_only(fields) == "diagnosis" \notin DOMAIN fields

\* `not diagnosis`: the field is missing (None) or empty.
NoDiagnosis(fields) == "diagnosis" \notin DOMAIN fields \/ fields.diagnosis = ""

KeyOf(body) ==
    <<body.fields.diagnosis, Get(body.fields, "species", "Unknown"),
      Get(body.fields, "breed", "Mixed")>>

\* The handler up to the call of the memoized function: a response, or the
\* arguments of the call.
veterinary_details_begin(body) ==
    LET data == request_json(body)
    IN  IF ~data.ok THEN [call |-> FALSE, response |-> veterinary_details_except(data.exc)]
        ELSE IF data.val.kind # "object"     \* no .get()
        THEN [call |-> FALSE, response |-> veterinary_details_except(AttributeError)]
        ELSE IF NoDiagnosis(data.val.fields)
        THEN [call |-> FALSE, response |-> ErrorResponse(400, "Diagnosis is required")]
        ELSE IF apiKey THEN [call |-> TRUE, key |-> KeyOf(data.val)]
        ELSE [call |-> FALSE,
              response |-> SkippedResponse(503, "No AI models available",
                                           <<"OpenRouter (no API key)">>)]

\* The handler from the return (or the exception) of the memoized function.
veterinary_details_end(key, details) ==
    IF ~details.ok THEN veterinary_details_except(details.exc)
    ELSE IF ~Truthy(details.val)
    THEN SkippedResponse(500,
             "Failed to parse AI response for veterinary details. Please try again.", <<>>)
    ELSE Response(200,
             {"diagnosis", "species", "breed", "veterinary_details", "queried_models",
              "skipped_models"},
             "", <<>>, <<"OpenRouter">>, key[1], details.val)

-----------------------------------------------------------------------------
(* State *)

\* `resident`: whether the key was in the cache when the request looked it up.
InFlight(endpoint, key, attempts, resident) ==
    [endpoint |-> endpoint, key |-> key, attempts |-> attempts, resident |-> resident]

\* The response sent, with the facts of its request: the endpoint, the kind of
\* the body and whether it gave a diagnosis, the key looked up, how each
\* provider call went, whether the reply parsed to None, whether the lookup
\* found the key resident and with what value, and, when an entry another
\* request had stored was resident as this one ended (`second`), the provider
\* calls the two requests made together.
Sent(response, endpoint, body, key, attempts, parse_failed, resident, stored, second, both_calls) ==
    [response |-> response, endpoint |-> endpoint, body_kind |-> body.kind,
     diagnosis_given |-> /\ body.kind = "object"
                         /\ "diagnosis" \in DOMAIN body.fields
                         /\ body.fields.diagnosis # "",
     key |-> key, attempts |-> attempts, parse_failed |-> parse_failed,
     resident |-> resident, stored |-> stored, second |-> second, both_calls |-> both_calls]

NoRequest ==
    Sent(ErrorResponse(0, ""), "", [kind |-> "none"], NoKey, <<>>, FALSE, FALSE, PyNone, FALSE, 0)

\* The cache after the requests for Earlier(1), ..., Earlier(n), served one
\* after the other and each answered at once with a JSON object.
EarlierKey(i) == <<Earlier(i), "Unknown", "Mixed">>
EarlierEntry(i) ==
    [key |-> EarlierKey(i), val |-> [Overview |-> Earlier(i), Symptoms |-> "itching"]]
Warm(n) == [i \in 1..n |-> EarlierEntry(i)]

Started(key, c) ==
    /\ apiKey = key
    /\ cache = c
    /\ useOrder = [i \in 1..Len(c) |-> c[i].key]
    /\ retried = {}
    /\ inflight = EmptyBag
    /\ sent = NoRequest

\* The process right after start, with or without the credential.
Init ==
    /\ \E key \in BOOLEAN : Started(key, <<>>)
    /\ results = <<>>
    /\ summary = ""

\* The process, with the credential, after enough requests to fill the cache,
\* or to fill it but for one entry.
InitWarm ==
    /\ \E n \in {maxsize - 1, maxsize} : Started(TRUE, Warm(n))
    /\ results = <<>>
    /\ summary = ""

\* The condition lists the summary is tried on: the i-th condition is named
\* after its place, so that conditions of equal likelihood can be told apart.
ConditionLists ==
    UNION {[1..n -> 0..MaxLikelihood] : n \in 0..MaxConditions}

Conditions(ls) ==
    [i \in 1..Len(ls) |-> [name |-> Earlier(i), likelihood |-> ls[i], explanation |-> ""]]

InitSummary ==
    /\ Started(TRUE, <<>>)
    /\ \E ls \in ConditionLists : results = Conditions(ls)
    /\ summary = ""

InSeq(s, x) == \E i \in 1..Len(s) : s[i] = x

\* The recency list after key is used: it moves to the recent end; a new key
\* pushes the least recent one out of a full list.
Used(order, key) ==
    IF InSeq(order, key) THEN SelectSeq(order, LAMBDA k : k # key) \o <<key>>
    ELSE IF Len(order) < maxsize THEN Append(order, key)
    ELSE Append(Tail(order), key)

\* Provider calls made by the request that stored the resident key.
Fetched(key) == IF key \in retried THEN 2 ELSE 1

-----------------------------------------------------------------------------
(* Actions *)

\* A POST /diagnose request arrives and its handler runs up to the provider
\* call, or to its response.
Diagnose ==
    /\ BagCardinality(inflight) < MaxInFlight
    /\ \E body \in DiagnoseBodies :
          LET begun == diagnose_begin(body)
          IN  IF begun.call
              THEN /\ inflight' = inflight (+) SetToBag({InFlight("diagnose", NoKey, <<>>, FALSE)})
                   /\ sent' = NoRequest
              ELSE /\ sent' = Sent(begun.response, "diagnose", body, NoKey, <<>>,
                                   FALSE, FALSE, PyNone, FALSE, 0)
                   /\ UNCHANGED inflight
    /\ UNCHANGED <<apiKey, cache, retried, useOrder, results, summary>>

\* The provider answers an attempt of query_openrouter: the attempt is retried,
\* or the handler runs to its response.
QueryOpenRouter(r) ==
    /\ r.endpoint = "diagnose"
    /\ \E outcome \in ProviderOutcomes(DiagnoseValues) :
          LET attempts == Append(r.attempts, OutcomeKind(outcome))
              step == retry(Len(attempts), query_openrouter(outcome))
              parsed == process_response(step.result.val)
              body == ObjectBody([species |-> "dog"])
          IN  IF step.again
              THEN /\ inflight' = (inflight (-) SetToBag({r}))
                                      (+) SetToBag({[r EXCEPT !.attempts = attempts]})
                   /\ sent' = NoRequest
              ELSE /\ inflight' = inflight (-) SetToBag({r})
                   /\ sent' = Sent(diagnose_end(step.result), "diagnose", body, NoKey,
                                   attempts,
                                   step.result.ok /\ parsed.ok /\ parsed.val = PyNone,
                                   FALSE, PyNone, FALSE, 0)
    /\ UNCHANGED <<apiKey, cache, retried, useOrder, results, summary>>

\* A POST /veterinary-details request arrives and its handler runs up to the
\* provider call inside the memoized function (a miss), or to its response (no
\* call of the function, or a hit).
VeterinaryDetails ==
    /\ BagCardinality(inflight) < MaxInFlight
    /\ \E body \in DetailsBodies :
          LET begun == veterinary_details_begin(body)
              key == begun.key
              i == cache_find(cache, key)
              resident == \E j \in 1..Len(cache) : cache[j].key = key
              stored == IF resident
                        THEN cache[CHOOSE j \in 1..Len(cache) : cache[j].key = key].val
                        ELSE PyNone
          IN  IF ~begun.call
              THEN /\ sent' = Sent(begun.response, "details", body, NoKey, <<>>,
                                   FALSE, FALSE, PyNone, FALSE, 0)
                   /\ UNCHANGED <<cache, useOrder, inflight>>
              ELSE IF i # 0
              THEN /\ cache' = cache_hit(cache, i)
                   /\ useOrder' = Used(useOrder, key)
                   /\ sent' = Sent(veterinary_details_end(key, Ret(cache[i].val)),
                                   "details", body, key, <<>>, FALSE, resident, stored,
                                   resident, IF resident THEN Fetched(key) ELSE 0)
                   /\ UNCHANGED inflight
              ELSE /\ inflight' = inflight (+) SetToBag({InFlight("details", key, <<>>, resident)})
                   /\ sent' = NoRequest
                   /\ UNCHANGED <<cache, useOrder>>
    /\ UNCHANGED <<apiKey, retried, results, summary>>

\* The provider answers an attempt of query_veterinary_details: the attempt is
\* retried, or the function returns, lru_cache stores what it returned, and
\* the handler runs to its response.
QueryVeterinaryDetails(r) ==
    /\ r.endpoint = "details"
    /\ \E outcome \in ProviderOutcomes(DetailsValues(r.key)) :
          LET key == r.key
              attempts == Append(r.attempts, OutcomeKind(outcome))
              step == retry(Len(attempts), query_veterinary_details(outcome))
              second == step.result.ok /\ InSeq(useOrder, key)
              inserted == step.result.ok /\ ~InSeq(useOrder, key)
              body == ObjectBody([diagnosis |-> key[1]])
          IN  IF step.again
              THEN /\ inflight' = (inflight (-) SetToBag({r}))
                                      (+) SetToBag({[r EXCEPT !.attempts = attempts]})
                   /\ sent' = NoRequest
                   /\ UNCHANGED <<cache, retried, useOrder>>
              ELSE /\ inflight' = inflight (-) SetToBag({r})
                   /\ cache' = IF step.result.ok
                               THEN cache_store(cache, key, step.result.val)
                               ELSE cache
                   /\ useOrder' = IF inserted THEN Used(useOrder, key) ELSE useOrder
                   /\ retried' = {k \in retried \cup (IF inserted /\ Len(attempts) = 2
                                                      THEN {key} ELSE {}) :
                                     InSeq(useOrder', k)}
                   /\ sent' = Sent(veterinary_details_end(key, step.result), "details",
                                   body, key, attempts,
                                   step.result.ok /\ step.result.val = PyNone,
                                   r.resident, PyNone, second,
                                   IF second THEN Fetched(key) + Len(attempts) ELSE 0)
    /\ UNCHANGED <<apiKey, results, summary>>

Next ==
    \/ Diagnose
    \/ \E r \in BagToSet(inflight) : QueryOpenRouter(r)
    \/ VeterinaryDetails
    \/ \E r \in BagToSet(inflight) : QueryVeterinaryDetails(r)

Spec == Init /\ [][Next]_vars

NextCache ==
    \/ VeterinaryDetails
    \/ \E r \in BagToSet(inflight) : QueryVeterinaryDetails(r)

SpecCache == InitWarm /\ [][NextCache]_vars

\* get_highest_ranked_diagnosis is applied to the list.
Summarize ==
    /\ summary = ""
    /\ summary' = get_highest_ranked_diagnosis(results)
    /\ UNCHANGED <<apiKey, cache, inflight, sent, retried, useOrder, results>>

NextSummary == Summarize

SpecSummary == InitSummary /\ [][NextSummary]_vars

-----------------------------------------------------------------------------
(* Properties *)

Answered == sent # NoRequest

InFlightRequests == BagToSet(inflight)

\* How an attempt ends when the provider call itself raises.
ProviderFailed == {"503", "error"}

\* C1: a /diagnose request made with the credential, whose reply
\* process_response could not parse (it returned None), ends with status 500.
C1_UnparseableReplyIs500 ==
    (Answered /\ sent.endpoint = "diagnose" /\ apiKey /\ sent.parse_failed)
        => sent.response.status = 500

\* C2: a request whose provider call fails with status 503 on every attempt
\* ends with status 503 and the high-demand message, not with the generic 500.
C2_OverloadIs503 ==
    (Answered /\ sent.attempts # <<>>
        /\ \A i \in 1..Len(sent.attempts) : sent.attempts[i] = "503")
        => /\ sent.response.status = 503
           /\ sent.response.error = DemandMsg

\* C3, as claimed: of two /veterinary-details requests for one triple, the
\* second ending while the entry of the first is resident, the provider calls
\* of both together are at most one, and the second makes none.
C3_AtMostOneCall ==
    (Answered /\ sent.endpoint = "details" /\ sent.second)
        => /\ sent.both_calls <= 1
           /\ sent.attempts = <<>>

\* C3, amended: a /veterinary-details request that looks its triple up while
\* it is resident is answered from the stored value without a provider call.
C3_ResidentServedWithoutCall ==
    (Answered /\ sent.endpoint = "details" /\ sent.resident)
        => /\ sent.attempts = <<>>
           /\ IF Truthy(sent.stored)
              THEN /\ sent.response.status = 200
                   /\ sent.response.veterinary_details = sent.stored
              ELSE sent.response.status = 500

C3_Witness ==
    /\ Answered /\ sent.endpoint = "details" /\ sent.resident
    /\ sent.response.status = 200
    /\ sent.both_calls = 2

\* C4, as claimed: a model query calls the provider at most twice, and a
\* second time only after the first call failed.
C4_SecondCallOnlyAfterFailedCall ==
    /\ Answered =>
          /\ Len(sent.attempts) <= 2
          /\ Len(sent.attempts) = 2 => sent.attempts[1] \in ProviderFailed
    /\ \A r \in InFlightRequests :
          /\ Len(r.attempts) + 1 <= 2
          /\ Len(r.attempts) = 1 => r.attempts[1] \in ProviderFailed

\* An attempt of query_veterinary_details also raises when the provider call
\* returned a reply that has no text.
AttemptRaised(endpoint) ==
    IF endpoint = "details" THEN ProviderFailed \cup {"nocontent"} ELSE ProviderFailed

\* C4, amended: a model query calls the provider at most twice, and a second
\* time only after the first attempt raised: the provider call failed, or, in
\* query_veterinary_details, reading the reply it returned raised.
C4_SecondCallOnlyAfterRaisedAttempt ==
    /\ Answered =>
          /\ Len(sent.attempts) <= 2
          /\ Len(sent.attempts) = 2 => sent.attempts[1] \in AttemptRaised(sent.endpoint)
    /\ \A r \in InFlightRequests :
          /\ Len(r.attempts) + 1 <= 2
          /\ Len(r.attempts) = 1 => r.attempts[1] \in AttemptRaised(r.endpoint)

C4_Witness ==
    /\ Answered /\ sent.endpoint = "details"
    /\ sent.attempts = <<"nocontent", "ok">>
    /\ \E r \in InFlightRequests : r.endpoint = "diagnose" /\ r.attempts = <<"error">>

\* C5: every response of the two handlers is one JSON body with status 200,
\* 400, 500 or 503, whatever the body and the provider did, and a request
\* waiting for the provider has an attempt left to wait for.
C5_EveryRequestAnswered ==
    /\ Answered =>
          /\ sent.response.status \in {200, 400, 500, 503}
          /\ sent.response.fields # {}
          /\ sent.response.status # 200 => "error" \in sent.response.fields
    /\ \A r \in InFlightRequests : Len(r.attempts) < stop_after_attempt

C5_Witness ==
    /\ Answered /\ sent.endpoint = "details"
    /\ sent.attempts = <<"error", "nocontent">>
    /\ sent.response = ErrorResponse(500, UnexpectedMsg)

\* C6: the cache holds at most 128 entries, of distinct keys, each with a value
\* the provider query for that key returned, and its keys are the keys used
\* last: a key stored into the full cache evicts the least recently used one.
C6_BoundedLeastRecentlyUsed ==
    /\ Len(cache) <= maxsize
    /\ Cardinality(CacheKeys(cache)) = Len(cache)
    /\ \A i \in 1..Len(cache) :
          cache[i].val = PyNone \/ cache[i].val \in DetailsValues(cache[i].key)
    /\ [i \in 1..Len(cache) |-> cache[i].key] = useOrder

C6_Witness ==
    /\ Len(cache) = maxsize
    /\ EarlierKey(1) \in CacheKeys(cache)
    /\ EarlierKey(2) \notin CacheKeys(cache)
    /\ <<"Otitis", "Unknown", "Mixed">> \in CacheKeys(cache)
    /\ inflight # EmptyBag

\* C7, as claimed: a /diagnose request handled without the credential ends
\* with 503, "OpenRouter (no API key)" among skipped_models, no model queried
\* and no provider call.
C7_NoCredentialIs503 ==
    (Answered /\ sent.endpoint = "diagnose" /\ ~apiKey)
        => /\ sent.response.status = 503
           /\ InSeq(sent.response.skipped_models, "OpenRouter (no API key)")
           /\ sent.response.queried_models = <<>>
           /\ sent.attempts = <<>>

\* C7, amended: so it is when the body is a JSON object; whatever the body,
\* no provider call is made without the credential.
C7_NoCredentialObjectIs503 ==
    /\ (Answered /\ sent.endpoint = "diagnose" /\ ~apiKey /\ sent.body_kind = "object")
          => /\ sent.response.status = 503
             /\ InSeq(sent.response.skipped_models, "OpenRouter (no API key)")
             /\ sent.response.queried_models = <<>>
    /\ (Answered /\ sent.endpoint = "diagnose" /\ ~apiKey) => sent.attempts = <<>>
    /\ ~apiKey => \A r \in InFlightRequests : r.endpoint # "diagnose"

C7_Witness ==
    /\ Answered /\ sent.endpoint = "diagnose" /\ ~apiKey
    /\ sent.body_kind = "object"
    /\ sent.response.status = 503

Ranks(rs, i, j) ==
    \/ rs[i].likelihood > rs[j].likelihood
    \/ rs[i].likelihood = rs[j].likelihood /\ i < j

Shown(d) == d.name \o " (" \o ToString(d.likelihood) \o "%)"

C9_Summary ==
    summary # "" =>
        LET n == Len(results)
        IN  /\ n = 0 => summary = "No diagnosis available"
            /\ n \in {1, 2} =>
                  \E i \in 1..n :
                      /\ \A j \in 1..n : results[j].likelihood <= results[i].likelihood
                      /\ summary = Shown(results[i])
            /\ n >= 3 =>
                  \E a, b, c \in 1..n :
                      /\ Ranks(results, a, b) /\ Ranks(results, b, c)
                      /\ \A j \in 1..n \ {a, b, c} : Ranks(results, c, j)
                      /\ summary = "Top 3 possible diagnoses: " \o Shown(results[a])
                                        \o ", " \o Shown(results[b]) \o ", " \o Shown(results[c])

C9_Witness ==
    /\ Len(results) = 4
    /\ results[1].likelihood = results[2].likelihood
    /\ results[2].likelihood = results[4].likelihood
    /\ results[3].likelihood > results[1].likelihood
    /\ summary = "Top 3 possible diagnoses: " \o Shown(results[3])
                     \o ", " \o Shown(results[1]) \o ", " \o Shown(results[2])

====
